---- MODULE Spec2Model ----
(***************************************************************************)
(* Model of cli/src/helpers/logger.rs (snarkOS): initialize_logger, the    *)
(* two filtered fmt layers it registers, the bounded display channel and   *)
(* the append-only log file.                                               *)
(*                                                                         *)
(* A call of initialize_logger is one atomic action: it is a synchronous   *)
(* one-shot setup routine.  A log event (tracing's dispatch to the two     *)
(* layers) is one atomic action as well: mpsc::Sender::try_send is         *)
(* linearizable and the file writer serializes its writes, so events of    *)
(* any number of emitting threads interleave as whole steps.               *)
(*                                                                         *)
(* Module paths (log targets, directive targets) and file system paths     *)
(* are tuples of their segments; a directive matches a target when its     *)
(* own target is a prefix of it.                                           *)
(***************************************************************************)
EXTENDS Integers, Sequences, FiniteSets, TLC

VARIABLES
    rust_log,     \* the process environment variable RUST_LOG
    tty,          \* whether the process' stdout is a terminal
    dirs,         \* file system: the directories that exist
    files,        \* file system: path |-> content (lines) of each existing file
    subscriber,   \* the process-wide tracing subscriber (the global default)
    chans,        \* the mpsc channels created so far, one per returning call
    stdout,       \* what was written to the process' standard output
    callLog,      \* history: one record per initialize_logger call
    nextId,       \* history: number of the next log event
    lastEvent     \* history: the log event emitted last

vars == <<rust_log, tty, dirs, files, subscriber, chans, stdout, callLog, nextId, lastEvent>>

----------------------------------------------------------------------------
(* Bounds of the model *)

MaxCalls == 2
MaxEvents == 2
MaxRecv == 1
MaxWrites == 1026

(* u8::MAX: verbosity is a u8 *)
U8Max == 255

----------------------------------------------------------------------------
(* Levels and directives (tracing_subscriber::EnvFilter) *)

LevelFilters == {"off", "error", "warn", "info", "debug", "trace"}
Levels == LevelFilters \ {"off"}

LevelNum(l) ==
    CASE l = "off" -> 0
      [] l = "error" -> 1
      [] l = "warn" -> 2
      [] l = "info" -> 3
      [] l = "debug" -> 4
      [] l = "trace" -> 5

Directive(target, level) == [target |-> target, level |-> level]

(* str::parse::<Directive>() of the directive texts the code (and the
   environment) uses: "<target>=<level>", or a bare "<level>". *)
ParseDirective(text) ==
    CASE text = "info" -> Directive(<<>>, "info")
      [] text = "debug" -> Directive(<<>>, "debug")
      [] text = "trace" -> Directive(<<>>, "trace")
      [] text = "warn" -> Directive(<<>>, "warn")
      [] text = "mio=off" -> Directive(<<"mio">>, "off")
      [] text = "mio=trace" -> Directive(<<"mio">>, "trace")
      [] text = "tokio_util=off" -> Directive(<<"tokio_util">>, "off")
      [] text = "hyper=off" -> Directive(<<"hyper">>, "off")
      [] text = "reqwest=off" -> Directive(<<"reqwest">>, "off")
      [] text = "want=off" -> Directive(<<"want">>, "off")
      [] text = "warp=off" -> Directive(<<"warp">>, "off")
      [] text = "snarkos_node_narwhal::gateway=trace" -> Directive(<<"snarkos_node_narwhal", "gateway">>, "trace")
      [] text = "snarkos_node_narwhal::gateway=debug" -> Directive(<<"snarkos_node_narwhal", "gateway">>, "debug")
      [] text = "snarkos_node_narwhal=trace" -> Directive(<<"snarkos_node_narwhal">>, "trace")
      [] text = "snarkos_node_narwhal=debug" -> Directive(<<"snarkos_node_narwhal">>, "debug")
      [] text = "snarkos_node_router=trace" -> Directive(<<"snarkos_node_router">>, "trace")
      [] text = "snarkos_node_router=off" -> Directive(<<"snarkos_node_router">>, "off")
      [] text = "snarkos_node_tcp=trace" -> Directive(<<"snarkos_node_tcp">>, "trace")
      [] text = "snarkos_node_tcp=off" -> Directive(<<"snarkos_node_tcp">>, "off")

(* EnvFilter::add_directive: a directive replaces the one with the same
   target, if any; a filter is its set of directives. *)
add_directive(filter, text) ==
    LET d == ParseDirective(text)
    IN  {x \in filter : x.target # d.target} \cup {d}

(* The value of an unset variable *)
Unset == "<unset>"

(* std::env::set_var: the variable takes the value, whatever it held *)
set_var(current, value) == value

(* EnvFilter::from_default_env: the directives of RUST_LOG; the default
   directive (ERROR) when the variable is unset. *)
from_default_env(value) ==
    IF value = Unset THEN {Directive(<<>>, "error")} ELSE {ParseDirective(value)}

IsPrefix(p, t) == Len(p) <= Len(t) /\ SubSeq(t, 1, Len(p)) = p

(* The level a filter allows for a target: that of the most specific
   matching directive, off when none matches. *)
EffectiveLevel(filter, target) ==
    LET m == {d \in filter : IsPrefix(d.target, target)}
    IN  IF m = {} THEN "off"
        ELSE (CHOOSE d \in m : \A e \in m : Len(e.target) <= Len(d.target)).level

(* Filter::enabled for an event of `level` with `target` *)
Enabled(filter, target, level) == LevelNum(level) <= LevelNum(EffectiveLevel(filter, target))

(* The level of the directive for exactly `target`, "none" without one *)
DirectiveLevel(filter, target) ==
    LET m == {d \in filter : d.target = target}
    IN  IF m = {} THEN "none" ELSE (CHOOSE d \in m : TRUE).level

----------------------------------------------------------------------------
(* initialize_logger: the directive set *)

(* match verbosity { 0 => "info", 1 => "debug", 2.. => "trace" } *)
RustLogFor(verbosity) ==
    IF verbosity = 0 THEN "info"
    ELSE IF verbosity = 1 THEN "debug"
    ELSE "trace"

(* NoiseDirectives with the last add_directive left out *)
NoiseDirectivesWithoutWarp == <<"mio=off", "tokio_util=off", "hyper=off", "reqwest=off", "want=off">>

NoiseDirectives == <<"mio=off", "tokio_util=off", "hyper=off", "reqwest=off", "want=off", "warp=off">>

GatewayDirective(verbosity) ==
    IF verbosity > 3 THEN "snarkos_node_narwhal::gateway=trace" ELSE "snarkos_node_narwhal::gateway=debug"

NarwhalDirective(verbosity) ==
    IF verbosity > 4 THEN "snarkos_node_narwhal=trace" ELSE "snarkos_node_narwhal=debug"

(* RouterDirective with the threshold of the doc comment (5 => router) *)
RouterDirectiveFromFive(verbosity) ==
    IF verbosity >= 5 THEN "snarkos_node_router=trace" ELSE "snarkos_node_router=off"

RouterDirective(verbosity) ==
    IF verbosity > 5 THEN "snarkos_node_router=trace" ELSE "snarkos_node_router=off"

TcpDirective(verbosity) ==
    IF verbosity > 6 THEN "snarkos_node_tcp=trace" ELSE "snarkos_node_tcp=off"

RECURSIVE AddAll(_, _)
AddAll(filter, texts) ==
    IF texts = <<>> THEN filter
    ELSE AddAll(add_directive(filter, Head(texts)), Tail(texts))

(* A closure that adds the directives to the first filter only *)
BuildFilterFirstOnly(index, env_value, verbosity) ==
    IF index = 0
    THEN AddAll(from_default_env(env_value),
                NoiseDirectives \o <<GatewayDirective(verbosity), NarwhalDirective(verbosity),
                                     RouterDirective(verbosity), TcpDirective(verbosity)>>)
    ELSE from_default_env(env_value)

(* The closure of std::array::from_fn, called with index 0 and 1: it
   ignores its index and reads the environment as it is at the call. *)
BuildFilter(index, env_value, verbosity) ==
    AddAll(from_default_env(env_value),
           NoiseDirectives \o <<GatewayDirective(verbosity), NarwhalDirective(verbosity),
                                RouterDirective(verbosity), TcpDirective(verbosity)>>)

----------------------------------------------------------------------------
(* The file system: Path::parent, Path::exists, fs::create_dir_all and
   File::options().append(true).create(true).open *)

Root == <<>>

(* Directories in which nothing can be created (no write permission) *)
ReadOnlyDirs == {<<"ro">>}

(* Path::parent; only called on a path other than the root *)
Parent(path) == SubSeq(path, 1, Len(path) - 1)

Exists(path) == path \in dirs \/ path \in DOMAIN files

(* fs::create_dir_all(dir): creates the missing ancestors of dir top-down,
   then dir; stops at the first one that cannot be created, leaving
   those already created.  Result: [dirs, err], err = "" on success. *)
RECURSIVE CreateDirsFrom(_, _, _)
CreateDirsFrom(ds, dir, k) ==
    IF k > Len(dir) THEN [dirs |-> ds, err |-> ""]
    ELSE LET a == SubSeq(dir, 1, k)
         IN  IF a \in ds THEN CreateDirsFrom(ds, dir, k + 1)
             ELSE IF Parent(a) \in ReadOnlyDirs THEN [dirs |-> ds, err |-> "PermissionDenied"]
             ELSE CreateDirsFrom(ds \cup {a}, dir, k + 1)

create_dir_all(dir) == CreateDirsFrom(dirs, dir, 1)

(* write(true).truncate(true) in place of append(true) *)
OpenTruncate(ds, path) ==
    IF path \in DOMAIN files THEN [files |-> [files EXCEPT ![path] = <<>>], err |-> ""]
    ELSE IF Parent(path) \notin ds THEN [files |-> files, err |-> "NotFound"]
    ELSE IF Parent(path) \in ReadOnlyDirs THEN [files |-> files, err |-> "PermissionDenied"]
    ELSE [files |-> (path :> <<>>) @@ files, err |-> ""]

(* OpenOptions append(true).create(true).open(path), given the directories
   `ds`: an existing file is opened as it is; a missing one is created
   empty.  Result: [files, err]. *)
OpenAppend(ds, path) ==
    IF path \in DOMAIN files THEN [files |-> files, err |-> ""]
    ELSE IF Parent(path) \notin ds THEN [files |-> files, err |-> "NotFound"]
    ELSE IF Parent(path) \in ReadOnlyDirs THEN [files |-> files, err |-> "PermissionDenied"]
    ELSE [files |-> (path :> <<>>) @@ files, err |-> ""]

----------------------------------------------------------------------------
(* The display channel (tokio::sync::mpsc) and the writers *)

(* A channel one slot short *)
CHANNEL_CAPACITY_MINUS_ONE == 1024 - 1

(* mpsc::channel(1024) *)
CHANNEL_CAPACITY == 1024

(* mpsc::unbounded_channel() in place of the bounded one *)
NewUnboundedChannel(capacity, sender_kept) ==
    [queue |-> <<>>, capacity |-> 1000000, sender_alive |-> sender_kept, received |-> <<>>]

NewChannel(capacity, sender_kept) ==
    [queue |-> <<>>, capacity |-> capacity, sender_alive |-> sender_kept, received |-> <<>>]

(* mpsc::Sender::try_send: enqueues unless the channel is full; never waits *)
try_send(chan, record) ==
    IF Len(chan.queue) < chan.capacity
    THEN [chan EXCEPT !.queue = Append(@, record)]
    ELSE chan

(* Option<mpsc::Sender>: None, or Some(sender of the channel numbered c) *)
NoSender == <<>>
SomeSender(channel) == <<channel>>

(* The sender handed to the terminal writer whatever nodisplay is *)
log_sender_always(nodisplay, channel) == <<channel>>

(* match nodisplay { true => None, false => Some(log_sender) } *)
log_sender(nodisplay, channel) == IF nodisplay THEN NoSender ELSE SomeSender(channel)

(* LogWriter::write(buf): try_send on the sender when there is one, the
   result discarded; otherwise the bytes go to stdout.  Result: the
   channels and stdout afterwards. *)
LogWriterWrite(sender, cs, out, buf) ==
    IF sender # NoSender
    THEN [chans |-> [cs EXCEPT ![sender[1]] = try_send(@, buf)], stdout |-> out]
    ELSE [chans |-> cs, stdout |-> Append(out, buf)]

(* .with_ansi(log_sender.is_none() && io::stdout().is_tty()) *)
TerminalAnsi(sender, is_tty) == sender = NoSender /\ is_tty

(* .with_target(verbosity > 2) *)
WithTarget(verbosity) == verbosity > 2

(* The fmt layer's formatting of an event into one line *)
FormatEvent(event, ansi, with_target) ==
    [id |-> event.id, level |-> event.level,
     target |-> IF with_target THEN event.target ELSE <<>>, ansi |-> ansi]

----------------------------------------------------------------------------
(* Registration *)

NoSubscriber == [kind |-> "none"]
ForeignSubscriber == [kind |-> "foreign"]

(* The registry with the terminal layer and the file layer *)
Registry(verbosity, filter, filter2, sender, logfile, is_tty) ==
    [kind |-> "logger", verbosity |-> verbosity, filter |-> filter, filter2 |-> filter2,
     log_sender |-> sender, ansi |-> TerminalAnsi(sender, is_tty), logfile |-> logfile]

(* init that replaces an installed subscriber *)
init_replacing(current, new) == new

(* try_init: installs the subscriber unless a global default is already
   set; the Err of the second case is discarded (let _ =). *)
try_init(current, new) == IF current = NoSubscriber THEN new ELSE current

(* The parts a message is made of: literal text, a formatted path, the
   Debug form of an io::Error *)
Text(text) == [kind |-> "text", text |-> text]
PathPart(path) == [kind |-> "path", path |-> path]
ErrorPart(err) == [kind |-> "error", err |-> err]

(* Result::expect / Option::expect: the panic message is the given text
   as it stands (a plain string literal is not interpolated), followed
   for a Result by ": " and the Debug form of the error. *)
ExpectMessage(text, err) ==
    IF err = "" THEN <<Text(text)>> ELSE <<Text(text), Text(": "), ErrorPart(err)>>

----------------------------------------------------------------------------
(* The initial state: a process that has not initialized logging.  The
   environment may hold any RUST_LOG, the log file may exist already. *)

InitialRustLog == {Unset, "warn", "mio=trace"}

OldLine == [id |-> 0, level |-> "info", target |-> <<>>, ansi |-> FALSE]

NoFiles == [p \in {} |-> <<>>]

NoEvent == [id |-> 0, target |-> <<>>, level |-> "off"]

Init ==
    /\ rust_log \in InitialRustLog
    /\ tty \in BOOLEAN
    /\ dirs = {Root, <<"ro">>}
    /\ files \in {NoFiles, (<<"node.log">> :> <<OldLine>>)}
    /\ subscriber = NoSubscriber
    /\ chans = <<>>
    /\ stdout = <<>>
    /\ callLog = <<>>
    /\ nextId = 1
    /\ lastEvent = NoEvent

----------------------------------------------------------------------------
(* initialize_logger(verbosity, nodisplay, logfile) *)

CallRecord(verbosity, nodisplay, logfile, filter, filter2, result, receiver, message) ==
    [verbosity |-> verbosity, nodisplay |-> nodisplay, logfile |-> logfile,
     filter |-> filter, filter2 |-> filter2,
     result |-> result, receiver |-> receiver, message |-> message,
     registered_before |-> subscriber # NoSubscriber, at |-> nextId]

Panic(verbosity, nodisplay, logfile, filter, filter2, message) ==
    /\ callLog' = Append(callLog,
            CallRecord(verbosity, nodisplay, logfile, filter, filter2, "panicked", 0, message))
    /\ UNCHANGED <<subscriber, chans>>

initialize_logger(verbosity, nodisplay, logfile) ==
    LET env_value == set_var(rust_log, RustLogFor(verbosity))
        filter == BuildFilter(0, env_value, verbosity)
        filter2 == BuildFilter(1, env_value, verbosity)
    IN  /\ rust_log' = env_value
        /\ UNCHANGED <<tty, stdout, nextId, lastEvent>>
        /\ IF logfile = Root
           THEN /\ Panic(verbosity, nodisplay, logfile, filter, filter2,
                         ExpectMessage("Root directory passed as a logfile", ""))
                /\ UNCHANGED <<dirs, files>>
           ELSE LET logfile_dir == Parent(logfile)
                    made == IF ~Exists(logfile_dir)
                            THEN create_dir_all(logfile_dir)
                            ELSE [dirs |-> dirs, err |-> ""]
                    opened == OpenAppend(made.dirs, logfile)
                    channel == Len(chans) + 1
                    sender == log_sender(nodisplay, channel)
                    installed == try_init(subscriber,
                                          Registry(verbosity, filter, filter2, sender, logfile, tty))
                IN  /\ dirs' = made.dirs
                    /\ IF made.err # ""
                       THEN /\ Panic(verbosity, nodisplay, logfile, filter, filter2,
                                     ExpectMessage("Failed to create a directories: '{logfile_dir}', please check if user has permissions",
                                                   made.err))
                            /\ UNCHANGED files
                       ELSE IF opened.err # ""
                       THEN /\ Panic(verbosity, nodisplay, logfile, filter, filter2,
                                     ExpectMessage("Failed to open the file for writing logs", opened.err))
                            /\ UNCHANGED files
                       ELSE /\ files' = opened.files
                            /\ subscriber' = installed
                            \* the sender lives on only inside an installed terminal writer
                            /\ chans' = Append(chans,
                                   NewChannel(CHANNEL_CAPACITY,
                                              subscriber = NoSubscriber /\ sender # NoSender))
                            /\ callLog' = Append(callLog,
                                   CallRecord(verbosity, nodisplay, logfile, filter, filter2,
                                              "returned", channel, <<>>))

(* A log event with `target` and `level`, emitted by any thread: the
   global subscriber hands it to the terminal layer and to the file
   layer, each behind its own filter. *)
Emit(target, level) ==
    LET event == [id |-> nextId, target |-> target, level |-> level]
    IN  /\ nextId' = nextId + 1
        /\ lastEvent' = event
        /\ UNCHANGED <<rust_log, tty, dirs, subscriber, callLog>>
        /\ IF subscriber.kind = "logger"
           THEN LET with_target == WithTarget(subscriber.verbosity)
                    written == LogWriterWrite(subscriber.log_sender, chans, stdout,
                                              FormatEvent(event, subscriber.ansi, with_target))
                IN  /\ IF Enabled(subscriber.filter, target, level)
                       THEN chans' = written.chans /\ stdout' = written.stdout
                       ELSE UNCHANGED <<chans, stdout>>
                    /\ IF Enabled(subscriber.filter2, target, level)
                       THEN files' = [files EXCEPT ![subscriber.logfile] =
                                         Append(@, FormatEvent(event, FALSE, with_target))]
                       ELSE UNCHANGED files
           ELSE UNCHANGED <<chans, stdout, files>>

(* The display takes the oldest record of the channel whose receiver
   call number c returned (mpsc::Receiver::recv). *)
Recv(c) ==
    /\ chans[c].queue # <<>>
    /\ chans' = [chans EXCEPT ![c].queue = Tail(@),
                              ![c].received = Append(@, Head(chans[c].queue))]
    /\ UNCHANGED <<rust_log, tty, dirs, files, subscriber, stdout, callLog, nextId, lastEvent>>

(* Something else in the process (a test harness) registers its own
   global subscriber first. *)
RegisterElsewhere ==
    /\ IF callLog = <<>> THEN TRUE ELSE callLog[Len(callLog)].result # "panicked"
    /\ subscriber = NoSubscriber
    /\ subscriber' = ForeignSubscriber
    /\ UNCHANGED <<rust_log, tty, dirs, files, chans, stdout, callLog, nextId, lastEvent>>

----------------------------------------------------------------------------
(* Inputs *)

LogfilePaths ==
    {Root, <<"node.log">>, <<"logs", "testnet", "node.log">>,
     <<"ro", "node.log">>, <<"ro", "logs", "node.log">>}

Verbosities == {0, 7}

(* An event no filter accepts, and one the filters of verbosity 7 accept
   and those of verbosity 0 reject *)
EventKinds ==
    {[target |-> <<"mio", "net">>, level |-> "info"],
     [target |-> <<"snarkos_node_router">>, level |-> "trace"]}

TotalReceived == LET n[i \in 0..Len(chans)] == IF i = 0 THEN 0 ELSE n[i - 1] + Len(chans[i].received)
                 IN  n[Len(chans)]

(* A panic of initialize_logger ends the run: it is the startup path, and
   the caller has no recovery. *)
Alive == IF callLog = <<>> THEN TRUE ELSE callLog[Len(callLog)].result # "panicked"

(* The process over its life: calls, events, the display, other registrations *)
Call ==
    /\ Alive
    /\ Len(callLog) < MaxCalls
    /\ \E verbosity \in Verbosities, nodisplay \in BOOLEAN, logfile \in LogfilePaths :
          initialize_logger(verbosity, nodisplay, logfile)

Log ==
    /\ Alive
    /\ nextId <= MaxEvents
    /\ \E kind \in EventKinds : Emit(kind.target, kind.level)

Display ==
    /\ Alive
    /\ TotalReceived < MaxRecv
    /\ \E c \in 1..Len(chans) : Recv(c)

Next == Call \/ Log \/ Display \/ RegisterElsewhere

Spec == Init /\ [][Next]_vars

(* The calls alone *)
NextCalls == Call \/ RegisterElsewhere

SpecCalls == Init /\ [][NextCalls]_vars

(* One call with any verbosity a u8 holds *)
CallAnyVerbosity ==
    /\ callLog = <<>>
    /\ \E verbosity \in 0..U8Max, nodisplay \in BOOLEAN, logfile \in LogfilePaths :
          initialize_logger(verbosity, nodisplay, logfile)

NextResolve == CallAnyVerbosity \/ RegisterElsewhere

SpecResolve == Init /\ [][NextResolve]_vars

(* The display channel under load: one call with the display on, then
   writers emitting an event both filters accept, and the display
   taking records when it likes. *)
InitChannel == Init /\ rust_log = Unset /\ ~tty /\ files = NoFiles

CallWithDisplay ==
    /\ callLog = <<>>
    /\ \E verbosity \in {0, 7} : initialize_logger(verbosity, FALSE, <<"node.log">>)

Write ==
    /\ Alive
    /\ callLog # <<>>
    /\ nextId <= MaxWrites
    /\ Emit(<<"snarkos_cli">>, "info")

NextChannel == CallWithDisplay \/ Write \/ Display

SpecChannel == InitChannel /\ [][NextChannel]_vars

----------------------------------------------------------------------------
(* The directive set *)

Gateway == <<"snarkos_node_narwhal", "gateway">>
Narwhal == <<"snarkos_node_narwhal">>
Router == <<"snarkos_node_router">>
Tcp == <<"snarkos_node_tcp">>

Calls == 1..Len(callLog)

FiltersOf(call) == {call.filter, call.filter2}

(* C1: for every verbosity a u8 holds, both filters a call compiles carry
   the table's directives: global info at 0, debug at 1, trace from 2;
   gateway trace iff v > 3, else debug; narwhal trace iff v > 4, else
   debug; router trace iff v > 5, else off; tcp trace iff v > 6, else off;
   whatever RUST_LOG held before, and whatever nodisplay and logfile are. *)
C1_ResolveTable ==
    \A i \in Calls : \A f \in FiltersOf(callLog[i]) :
        LET v == callLog[i].verbosity
        IN  /\ DirectiveLevel(f, <<>>) = (IF v = 0 THEN "info" ELSE IF v = 1 THEN "debug" ELSE "trace")
            /\ DirectiveLevel(f, Gateway) = (IF v > 3 THEN "trace" ELSE "debug")
            /\ DirectiveLevel(f, Narwhal) = (IF v > 4 THEN "trace" ELSE "debug")
            /\ DirectiveLevel(f, Router) = (IF v > 5 THEN "trace" ELSE "off")
            /\ DirectiveLevel(f, Tcp) = (IF v > 6 THEN "trace" ELSE "off")

(* A call with verbosity 5 that registered its filters while RUST_LOG
   held a directive of the user's: router is still off there. *)
C1_Witness ==
    /\ subscriber.kind = "logger"
    /\ subscriber.verbosity = 5
    /\ subscriber.filter = callLog[1].filter
    /\ DirectiveLevel(subscriber.filter, Router) = "off"
    /\ DirectiveLevel(subscriber.filter, Narwhal) = "trace"

(* C2: each override is at trace at the verbosity the doc comment lists
   for it (gateway at 3, narwhal at 4, router at 5, tcp at 6), and
   verbosity 5 gives global, gateway, narwhal and router trace, tcp off. *)
C2_DocCommentTable ==
    \A i \in Calls : \A f \in FiltersOf(callLog[i]) :
        LET v == callLog[i].verbosity
        IN  /\ v = 3 => DirectiveLevel(f, Gateway) = "trace"
            /\ v = 4 => DirectiveLevel(f, Narwhal) = "trace"
            /\ v = 5 => /\ DirectiveLevel(f, <<>>) = "trace"
                        /\ DirectiveLevel(f, Gateway) = "trace"
                        /\ DirectiveLevel(f, Narwhal) = "trace"
                        /\ DirectiveLevel(f, Router) = "trace"
                        /\ DirectiveLevel(f, Tcp) = "off"
            /\ v = 6 => DirectiveLevel(f, Tcp) = "trace"

(* Targets of events of the six noise scopes and of modules inside them *)
NoiseTargets ==
    {<<"mio">>, <<"mio", "net">>, <<"tokio_util">>, <<"tokio_util", "codec">>,
     <<"hyper">>, <<"hyper", "client", "conn">>, <<"reqwest">>, <<"reqwest", "connect">>,
     <<"want">>, <<"warp">>, <<"warp", "server">>}

(* C3: for every verbosity, in both compiled filters, no event of a noise
   scope (mio, tokio_util, hyper, reqwest, want, warp) is enabled at any
   level: the global level and the subsystem overrides re-enable none. *)
C3_NoiseOff ==
    \A i \in Calls : \A f \in FiltersOf(callLog[i]) :
        \A target \in NoiseTargets :
            /\ EffectiveLevel(f, target) = "off"
            /\ \A level \in Levels : ~Enabled(f, target, level)

(* A call at full verbosity, global level trace, with RUST_LOG holding
   mio=trace before it: warp and mio stay off. *)
C3_Witness ==
    /\ callLog # <<>>
    /\ callLog[1].verbosity = 10
    /\ DirectiveLevel(callLog[1].filter2, <<>>) = "trace"
    /\ DirectiveLevel(callLog[1].filter2, Tcp) = "trace"
    /\ EffectiveLevel(callLog[1].filter2, <<"warp", "server">>) = "off"
    /\ EffectiveLevel(callLog[1].filter, <<"mio", "net">>) = "off"

----------------------------------------------------------------------------
(* The display channel *)

Channels == 1..Len(chans)

(* What the display has taken from channel c followed by what still waits *)
Delivered(c) == chans[c].received \o chans[c].queue

(* Number of log events emitted (each write has returned) *)
Emitted == nextId - 1

(* The line the terminal layer writes for the event numbered id, in the
   runs of SpecChannel *)
TerminalLine(id) ==
    FormatEvent([id |-> id, target |-> <<"snarkos_cli">>, level |-> "info"],
                subscriber.ansi, WithTarget(subscriber.verbosity))

(* C4: with the display on, once more than 1024 records were written and
   none of those written after the 1024th was accepted (the receiver was
   not drained while they were written), every write has returned and
   what the receiver yields, drained or still queued, is exactly records
   1..1024 in the order written; nothing else is on the channel. *)
C4_OverflowKeepsFirst ==
    \A c \in Channels :
        LET all == Delivered(c)
        IN  (/\ subscriber.kind = "logger"
             /\ subscriber.log_sender = SomeSender(c)
             /\ Emitted > 1024
             /\ (all = <<>> \/ all[Len(all)].id <= 1024))
            => /\ Len(all) = 1024
               /\ \A i \in 1..1024 : all[i] = TerminalLine(i)

(* 1026 records written into the undrained channel, then one taken *)
C4_Witness ==
    /\ chans # <<>>
    /\ Emitted = 1026
    /\ Len(chans[1].received) = 1
    /\ Len(chans[1].queue) = 1023
    /\ chans[1].received[1].id = 1
    /\ chans[1].queue[1023].id = 1024

(* C5: a channel never holds more than 1024 records; a write that finds
   it full returns with the channel unchanged (the record is dropped); a
   write that finds room, also after the display made room again, is
   enqueued at the end; the display takes the oldest record; so what it
   receives is in the order written, each record at most once. *)
C5_BoundedDropFifo ==
    [][\A c \in Channels :
          /\ Len(chans'[c].queue) <= 1024
          /\ (nextId' = nextId + 1 /\ subscriber.log_sender = SomeSender(c)) =>
                /\ chans'[c].received = chans[c].received
                /\ IF Len(chans[c].queue) >= 1024
                   THEN chans'[c].queue = chans[c].queue
                   ELSE chans'[c].queue = Append(chans[c].queue, TerminalLine(nextId))
          /\ nextId' = nextId =>
                \/ chans'[c] = chans[c]
                \/ /\ chans[c].queue # <<>>
                   /\ chans'[c].queue = Tail(chans[c].queue)
                   /\ chans'[c].received = Append(chans[c].received, Head(chans[c].queue))
          /\ LET all == Delivered(c)'
             IN  \A i \in 1..(Len(all) - 1) : all[i].id < all[i + 1].id
      ]_vars

(* The channel was full and a record was dropped, the display took one
   record, and the next write was accepted. *)
C5_Witness ==
    /\ chans # <<>>
    /\ Len(chans[1].received) = 1
    /\ Len(chans[1].queue) = 1024
    /\ chans[1].queue[1023].id = 1024
    /\ chans[1].queue[1024].id = 1026

----------------------------------------------------------------------------
(* Display suppression, registration, the log file *)

LastCall == callLog[Len(callLog)]

IsCallStep == Len(callLog') = Len(callLog) + 1

IsEventStep == nextId' = nextId + 1

(* C6: a receiver returned by a call with nodisplay = true never has a
   record, queued or taken, however many events are emitted; and an event
   the registered file filter accepts is appended to the log file, as the
   line the file layer formats, whatever nodisplay was (one the filter
   rejects leaves the file as it is). *)
C6_NoDisplayBypassesChannel ==
    [][/\ \A i \in 1..Len(callLog') :
            (callLog'[i].nodisplay /\ callLog'[i].result = "returned") =>
                /\ chans'[callLog'[i].receiver].queue = <<>>
                /\ chans'[callLog'[i].receiver].received = <<>>
       /\ (IsEventStep /\ subscriber.kind = "logger") =>
            LET event == lastEvent'
                line == [id |-> nextId, level |-> event.level, ansi |-> FALSE,
                         target |-> IF subscriber.verbosity > 2 THEN event.target ELSE <<>>]
            IN  /\ event.id = nextId
                /\ files' = IF Enabled(subscriber.filter2, event.target, event.level)
                            THEN [files EXCEPT ![subscriber.logfile] = Append(@, line)]
                            ELSE files
      ]_vars

(* The logger is registered with the display suppressed and handled two
   events: one went to stdout and to the file, nothing to the channel. *)
C6_Witness ==
    /\ subscriber.kind = "logger"
    /\ subscriber.log_sender = NoSender
    /\ callLog[1].nodisplay
    /\ nextId = 3
    /\ Len(stdout) = 1
    /\ Len(files[subscriber.logfile]) >= 1
    /\ files[subscriber.logfile][Len(files[subscriber.logfile])].id >= 1
    /\ chans[callLog[1].receiver].queue = <<>>

(* Every missing component of the path, the file itself included, can be
   created: none lies directly in a directory without write permission *)
Provisionable(logfile) ==
    /\ logfile # Root
    /\ \A k \in 1..Len(logfile) :
          LET a == SubSeq(logfile, 1, k)
          IN  (a \notin dirs /\ a \notin DOMAIN files) => Parent(a) \notin ReadOnlyDirs

(* The subscriber the call recorded as `call` builds *)
RegistryOf(call) ==
    [kind |-> "logger", verbosity |-> call.verbosity, filter |-> call.filter,
     filter2 |-> call.filter2,
     log_sender |-> IF call.nodisplay THEN NoSender ELSE SomeSender(call.receiver),
     ansi |-> call.nodisplay /\ tty, logfile |-> call.logfile]

(* C7 as stated: with a backend registered, every further call returns a
   receiver and leaves the backend as it is. *)
C7_SecondCallNeverFails ==
    [][subscriber # NoSubscriber =>
          /\ subscriber' = subscriber
          /\ IsCallStep => /\ LastCall'.result = "returned"
                           /\ LastCall'.receiver = Len(chans')
      ]_vars

(* C7 amended: with a backend registered, no step replaces it; a further
   call whose log file can be provisioned returns the receiver of a new
   channel (one that cannot be panics, as any call does); and a logger
   backend is the one the first call that found none registered built,
   whatever verbosity later calls pass. *)
C7_FirstBackendStays ==
    [][/\ subscriber # NoSubscriber =>
            /\ subscriber' = subscriber
            /\ IsCallStep =>
                  IF Provisionable(LastCall'.logfile)
                  THEN /\ LastCall'.result = "returned"
                       /\ Len(chans') = Len(chans) + 1
                       /\ LastCall'.receiver = Len(chans')
                  ELSE LastCall'.result = "panicked"
       /\ \A i \in 1..Len(callLog') :
            (callLog'[i].result = "returned" /\ ~callLog'[i].registered_before) =>
                subscriber' = RegistryOf(callLog'[i])
      ]_vars

(* A second call with another verbosity returned its receiver, and an
   event emitted after it was written to the first call's log file and
   queued on the first call's channel. *)
C7_Witness ==
    /\ Len(callLog) = 2
    /\ callLog[1].result = "returned" /\ ~callLog[1].registered_before /\ ~callLog[1].nodisplay
    /\ callLog[2].result = "returned" /\ callLog[2].registered_before
    /\ callLog[2].verbosity # callLog[1].verbosity
    /\ callLog[2].logfile # callLog[1].logfile
    /\ callLog[2].receiver = 2
    /\ subscriber.verbosity = callLog[1].verbosity
    /\ chans[2].queue = <<>>
    /\ chans[1].queue # <<>>
    /\ chans[1].queue[1].id >= callLog[2].at
    /\ files[callLog[1].logfile] # <<>>
    /\ files[callLog[1].logfile][Len(files[callLog[1].logfile])].id >= callLog[2].at

(* C8: no step removes a file or changes what it already holds: its old
   content is a prefix of the new one; and every file that exists has
   all the directories above it. *)
C8_AppendOnly ==
    [][/\ \A p \in DOMAIN files :
            /\ p \in DOMAIN files'
            /\ IsPrefix(files[p], files'[p])
       /\ \A p \in DOMAIN files' :
            \A k \in 0..(Len(p) - 1) : SubSeq(p, 1, k) \in dirs'
      ]_vars

(* Two calls on a path whose directories did not exist: the first created
   them and the file, an event was written, the second opened the file
   again, and the line of a later event follows the earlier one. *)
C8_Witness ==
    /\ Len(callLog) = 2
    /\ callLog[1].logfile = <<"logs", "testnet", "node.log">>
    /\ callLog[2].logfile = callLog[1].logfile
    /\ callLog[1].result = "returned" /\ callLog[2].result = "returned"
    /\ {<<"logs">>, <<"logs", "testnet">>} \subseteq dirs
    /\ Len(files[callLog[1].logfile]) = 2
    /\ files[callLog[1].logfile][1].id < callLog[2].at
    /\ files[callLog[1].logfile][2].id >= callLog[2].at

(* C9: a call in which creating the directory or opening the file failed
   returned no receiver and registered nothing, and its error names the
   failing path and the I/O cause. *)
C9_ErrorNamesPathAndCause ==
    \A i \in Calls :
        LET call == callLog[i]
        IN  (call.result = "panicked" /\ call.logfile # Root) =>
                /\ call.receiver = 0
                /\ (~call.registered_before /\ subscriber.kind = "logger") =>
                        subscriber # RegistryOf(call)
                /\ \E k \in 1..Len(call.message) : call.message[k].kind = "error"
                /\ \E k \in 1..Len(call.message) :
                        /\ call.message[k].kind = "path"
                        /\ call.message[k].path \in {call.logfile, Parent(call.logfile)}

(* Targets of events of the subsystems, of modules inside them and of
   other crates *)
SubsystemTargets ==
    {Gateway, <<"snarkos_node_narwhal", "gateway", "handshake">>, Narwhal,
     <<"snarkos_node_narwhal", "primary">>, Router, <<"snarkos_node_router", "heartbeat">>,
     Tcp, <<"snarkos_node_tcp", "protocols">>, <<"snarkos_cli">>, <<"snarkos_node">>}

(* C10: the two filters of a call take the same decision on every event,
   and the global level of both is the one the call's own verbosity
   sets, whatever RUST_LOG held when the call began. *)
C10_SameDecisions ==
    \A i \in Calls :
        LET call == callLog[i]
            global == IF call.verbosity = 0 THEN "info"
                      ELSE IF call.verbosity = 1 THEN "debug" ELSE "trace"
        IN  /\ \A target \in NoiseTargets \cup SubsystemTargets : \A level \in Levels :
                  Enabled(call.filter, target, level) = Enabled(call.filter2, target, level)
            /\ DirectiveLevel(call.filter, <<>>) = global
            /\ DirectiveLevel(call.filter2, <<>>) = global

(* A second call, entered with RUST_LOG = info from the first, at
   verbosity 7: both its filters accept a trace event of the router,
   both filters of the first call reject it. *)
C10_Witness ==
    /\ Len(callLog) = 2
    /\ callLog[1].verbosity = 0
    /\ callLog[2].verbosity = 7
    /\ Enabled(callLog[2].filter, Router, "trace")
    /\ Enabled(callLog[2].filter2, Router, "trace")
    /\ ~Enabled(callLog[1].filter, Router, "trace")
    /\ ~Enabled(callLog[1].filter2, Router, "trace")

====
